---- MODULE Spec2Model ----
(***************************************************************************)
(* Road-status inference of weather_mud_estimator (src/src/utils.py):      *)
(* is_road_dry, road_status_per_day and estimate_next_dry_day, run over a  *)
(* daily frame as get_weather_data (src/src/weather_data.py) builds it:    *)
(* a RangeIndex-ed table with one row per date_day (a datetime.date), the  *)
(* summed rain and the mean relative_humidity_2m.                          *)
(*                                                                         *)
(* A datetime.date is modelled as its day number, a pandas Timestamp as a  *)
(* record [day, hour]; rain and humidity are drawn at and just above the   *)
(* thresholds the code compares them with.                                 *)
(***************************************************************************)
EXTENDS Integers, Sequences, FiniteSets, TLC

\* ---------------------------------------------------------------- bounds
MaxLen == 3
MaxDay == 2

\* ------------------------------------------------------ program constants
RainThreshold == 5
HumidityThreshold == 90
TailWindow == 2
InitialDaysSinceRain == 99
GraceDays == 2

Days == 0..MaxDay
Rains == {RainThreshold, RainThreshold + 1}
Humidities == {HumidityThreshold, HumidityThreshold + 1}

\* One row of daily_df (the display-only columns are left out).
DailyRecord == [date_day : Days, rain : Rains, relative_humidity_2m : Humidities]

RECURSIVE SeqsUpTo(_, _)
SeqsUpTo(S, n) ==
  IF n = 0 THEN {<<>>}
  ELSE LET shorter == SeqsUpTo(S, n - 1)
       IN  shorter \cup {Append(s, x) : s \in {t \in shorter : Len(t) = n - 1}, x \in S}

Frames == SeqsUpTo(DailyRecord, MaxLen)

\* ------------------------------------------------------------ conversions
\* pd.to_datetime(date): the Timestamp at midnight of that date.
ToDatetime(d) == [day |-> d, hour |-> 0]

\* pd.to_datetime with the date read as local time and stored in UTC: the
\* Timestamp falls on the evening before.
ToDatetimeShifted(d) == [day |-> d - 1, hour |-> 21]

\* Timestamp.date()
DateOf(ts) == ts.day

\* ------------------------------------------------------------ is_road_dry
\* Insert row r into the day-sorted sequence s, after the rows of the same day.
RECURSIVE InsertSorted(_, _)
InsertSorted(s, r) ==
  IF s = <<>> THEN <<r>>
  ELSE IF s[Len(s)].date_day <= r.date_day THEN Append(s, r)
  ELSE Append(InsertSorted(SubSeq(s, 1, Len(s) - 1), r), s[Len(s)])

\* A sort that leaves the rows in the order given.
SortValuesNoSort(frame) == frame

\* daily_df.sort_values("date_day"): ascending by day; numpy's default sort
\* is an insertion sort at these lengths, so rows of equal day keep their order.
RECURSIVE SortValues(_)
SortValues(frame) ==
  IF frame = <<>> THEN <<>>
  ELSE InsertSorted(SortValues(SubSeq(frame, 1, Len(frame) - 1)), frame[Len(frame)])

\* DataFrame.tail(n): the last n rows, all of them when there are fewer.
TailRows(frame, n) ==
  IF Len(frame) <= n THEN frame ELSE SubSeq(frame, Len(frame) - n + 1, Len(frame))

\* Series.all(): true of an empty series.
All(bools) == \A k \in 1..Len(bools) : bools[k]

\* is_road_dry guarded by a length test: an empty frame is not dry.
IsRoadDryNonEmpty(frame) ==
  LET last_days == TailRows(SortValues(frame), TailWindow)
  IN  /\ Len(last_days) > 0
      /\ All([k \in 1..Len(last_days) |-> last_days[k].rain <= RainThreshold])
      /\ All([k \in 1..Len(last_days) |->
                last_days[k].relative_humidity_2m <= HumidityThreshold])

IsRoadDry(frame) ==
  LET last_days   == TailRows(SortValues(frame), TailWindow)
      rain_ok     == All([k \in 1..Len(last_days) |-> last_days[k].rain <= RainThreshold])
      humidity_ok == All([k \in 1..Len(last_days) |->
                            last_days[k].relative_humidity_2m <= HumidityThreshold])
  IN  rain_ok /\ humidity_ok

\* ---------------------------------------------------- road_status_per_day
Row(r, ts) ==
  [date_day             |-> ts,
   rain                 |-> r.rain,
   relative_humidity_2m |-> r.relative_humidity_2m,
   road_status          |-> "Dry",
   heavy_rain           |-> r.rain > RainThreshold,
   high_humidity        |-> r.relative_humidity_2m > HumidityThreshold]

\* The copy with the rows of an already seen day dropped.
RECURSIVE PrepareFrameDropDuplicates(_)
PrepareFrameDropDuplicates(frame) ==
  IF frame = <<>> THEN <<>>
  ELSE LET init == SubSeq(frame, 1, Len(frame) - 1)
           last == frame[Len(frame)]
       IN  IF \E k \in 1..Len(init) : init[k].date_day = last.date_day
           THEN PrepareFrameDropDuplicates(init)
           ELSE Append(PrepareFrameDropDuplicates(init), Row(last, ToDatetime(last.date_day)))

\* The copy with the days converted through a timezone.
PrepareFrameShifted(frame) ==
  [k \in 1..Len(frame) |-> Row(frame[k], ToDatetimeShifted(frame[k].date_day))]

\* df = daily_df.copy() with date_day as Timestamps, road_status "Dry" and
\* the two flag columns.
PrepareFrame(frame) ==
  [k \in 1..Len(frame) |-> Row(frame[k], ToDatetime(frame[k].date_day))]

\* The loop body with the two tests in the other order: the muddy branch first.
RoadStepMuddyFirst(muddy, since, row) ==
  IF muddy
  THEN IF since + 1 < GraceDays \/ row.high_humidity
       THEN [is_muddy |-> TRUE, days_since_rain |-> since + 1, road_status |-> "Mud"]
       ELSE [is_muddy |-> FALSE, days_since_rain |-> since + 1, road_status |-> "Dry"]
  ELSE IF row.heavy_rain
  THEN [is_muddy |-> TRUE, days_since_rain |-> 0, road_status |-> "Mud"]
  ELSE [is_muddy |-> muddy, days_since_rain |-> since, road_status |-> "Dry"]

\* The loop body counting the rain day itself as the first day of the grace.
RoadStepShortGrace(muddy, since, row) ==
  IF row.heavy_rain
  THEN [is_muddy |-> TRUE, days_since_rain |-> 0, road_status |-> "Mud"]
  ELSE IF muddy
  THEN IF since + 1 < GraceDays - 1 \/ row.high_humidity
       THEN [is_muddy |-> TRUE, days_since_rain |-> since + 1, road_status |-> "Mud"]
       ELSE [is_muddy |-> FALSE, days_since_rain |-> since + 1, road_status |-> "Dry"]
  ELSE [is_muddy |-> muddy, days_since_rain |-> since, road_status |-> "Dry"]

\* The loop body with "and" for "or" in the test that keeps the mud.
RoadStepAnd(muddy, since, row) ==
  IF row.heavy_rain
  THEN [is_muddy |-> TRUE, days_since_rain |-> 0, road_status |-> "Mud"]
  ELSE IF muddy
  THEN IF since + 1 < GraceDays /\ row.high_humidity
       THEN [is_muddy |-> TRUE, days_since_rain |-> since + 1, road_status |-> "Mud"]
       ELSE [is_muddy |-> FALSE, days_since_rain |-> since + 1, road_status |-> "Dry"]
  ELSE [is_muddy |-> muddy, days_since_rain |-> since, road_status |-> "Dry"]

\* The loop body in which high humidity alone is enough to enter the muddy branch.
RoadStepHumidityStarts(muddy, since, row) ==
  IF row.heavy_rain
  THEN [is_muddy |-> TRUE, days_since_rain |-> 0, road_status |-> "Mud"]
  ELSE IF muddy \/ row.high_humidity
  THEN IF since + 1 < GraceDays \/ row.high_humidity
       THEN [is_muddy |-> TRUE, days_since_rain |-> since + 1, road_status |-> "Mud"]
       ELSE [is_muddy |-> FALSE, days_since_rain |-> since + 1, road_status |-> "Dry"]
  ELSE [is_muddy |-> muddy, days_since_rain |-> since, road_status |-> "Dry"]

\* One pass of the loop body over row: the classifier state and the label after it.
RoadStep(muddy, since, row) ==
  IF row.heavy_rain
  THEN [is_muddy |-> TRUE, days_since_rain |-> 0, road_status |-> "Mud"]
  ELSE IF muddy
  THEN IF since + 1 < GraceDays \/ row.high_humidity
       THEN [is_muddy |-> TRUE, days_since_rain |-> since + 1, road_status |-> "Mud"]
       ELSE [is_muddy |-> FALSE, days_since_rain |-> since + 1, road_status |-> "Dry"]
  ELSE [is_muddy |-> muddy, days_since_rain |-> since, road_status |-> "Dry"]

\* -------------------------------------------------- estimate_next_dry_day
\* row_date: a Timestamp is converted with .date(), a date is taken as it is.
RowDate(v, isTimestamp) == IF isTimestamp THEN DateOf(v) ELSE v

\* The scan without the test against today.
RECURSIVE ScanAnyDay(_, _, _, _)
ScanAnyDay(frame, isTimestamp, now, k) ==
  IF k > Len(frame) THEN {}
  ELSE IF /\ frame[k].rain <= RainThreshold
          /\ frame[k].relative_humidity_2m <= HumidityThreshold
       THEN {ToDatetime(RowDate(frame[k].date_day, isTimestamp))}
       ELSE ScanAnyDay(frame, isTimestamp, now, k + 1)

\* for _, row in daily_df.iterrows(), from row k on; {} is None.
RECURSIVE Scan(_, _, _, _)
Scan(frame, isTimestamp, now, k) ==
  IF k > Len(frame) THEN {}
  ELSE LET row_date == RowDate(frame[k].date_day, isTimestamp)
       IN  IF /\ row_date >= now
              /\ frame[k].rain <= RainThreshold
              /\ frame[k].relative_humidity_2m <= HumidityThreshold
           THEN {ToDatetime(row_date)}
           ELSE Scan(frame, isTimestamp, now, k + 1)

\* The estimate that takes the first row meeting the threshold, past days included.
EstimateNextDryDayAnyDay(frame, isTimestamp, now) == ScanAnyDay(frame, isTimestamp, now, 1)

\* The scan that reuses the classifier: the state machine runs over every row
\* and the first row at or after today that it labels Dry is returned.
RECURSIVE ScanByStatus(_, _, _, _, _, _)
ScanByStatus(frame, isTimestamp, now, k, muddy, since) ==
  IF k > Len(frame) THEN {}
  ELSE LET row_date == RowDate(frame[k].date_day, isTimestamp)
           after    == RoadStep(muddy, since, Row(frame[k], frame[k].date_day))
       IN  IF row_date >= now /\ after.road_status = "Dry"
           THEN {ToDatetime(row_date)}
           ELSE ScanByStatus(frame, isTimestamp, now, k + 1,
                             after.is_muddy, after.days_since_rain)

\* The estimate taken from the labels of road_status_per_day.
EstimateNextDryDayByStatus(frame, isTimestamp, now) ==
  ScanByStatus(frame, isTimestamp, now, 1, FALSE, InitialDaysSinceRain)

\* estimate_next_dry_day with today = now: the first row, in row order, with
\* row_date >= today that meets the threshold.
EstimateNextDryDay(frame, isTimestamp, now) == Scan(frame, isTimestamp, now, 1)

\* The caller's frame with date_day held as Timestamps instead of dates.
AsTimestamps(frame) ==
  [k \in 1..Len(frame) |-> [frame[k] EXCEPT !.date_day = ToDatetime(frame[k].date_day)]]

\* ------------------------------------------------------------------ state
VARIABLES
  daily_df,         \* the frame the functions are called with
  pc,               \* "idle" | "loop" | "done"
  op,               \* the function called: "none" or its name
  df,               \* road_status_per_day: the working copy
  i,                \* road_status_per_day: the loop index, from 0
  is_muddy,         \* road_status_per_day: classifier state
  days_since_rain,  \* road_status_per_day: classifier state
  today,            \* estimate_next_dry_day: pd.Timestamp.utcnow().date()
  ret_dry,          \* is_road_dry's return value
  ret_next          \* estimate_next_dry_day's return value: {} is None

vars == <<daily_df, pc, op, df, i, is_muddy, days_since_rain, today, ret_dry, ret_next>>

Init ==
  /\ daily_df \in Frames
  /\ pc = "idle"
  /\ op = "none"
  /\ df = <<>>
  /\ i = 0
  /\ is_muddy = FALSE
  /\ days_since_rain = InitialDaysSinceRain
  /\ today = 0
  /\ ret_dry = FALSE
  /\ ret_next = {}

is_road_dry ==
  /\ pc = "idle"
  /\ ret_dry' = IsRoadDry(daily_df)
  /\ op' = "is_road_dry"
  /\ pc' = "done"
  /\ UNCHANGED <<daily_df, df, i, is_muddy, days_since_rain, today, ret_next>>

road_status_per_day_begin ==
  /\ pc = "idle"
  /\ df' = PrepareFrame(daily_df)
  /\ is_muddy' = FALSE
  /\ days_since_rain' = InitialDaysSinceRain
  /\ i' = 0
  /\ op' = "road_status_per_day"
  /\ pc' = "loop"
  /\ UNCHANGED <<daily_df, today, ret_dry, ret_next>>

road_status_per_day_step ==
  /\ pc = "loop"
  /\ i < Len(df)
  /\ LET after == RoadStep(is_muddy, days_since_rain, df[i + 1])
     IN  /\ is_muddy' = after.is_muddy
         /\ days_since_rain' = after.days_since_rain
         /\ df' = [df EXCEPT ![i + 1].road_status = after.road_status]
  /\ i' = i + 1
  /\ UNCHANGED <<daily_df, pc, op, today, ret_dry, ret_next>>

road_status_per_day_return ==
  /\ pc = "loop"
  /\ i = Len(df)
  /\ pc' = "done"
  /\ UNCHANGED <<daily_df, op, df, i, is_muddy, days_since_rain, today, ret_dry, ret_next>>

estimate_next_dry_day ==
  /\ pc = "idle"
  /\ \E now \in Days, isTimestamp \in BOOLEAN :
       /\ today' = now
       /\ ret_next' = EstimateNextDryDay(
                        IF isTimestamp THEN AsTimestamps(daily_df) ELSE daily_df,
                        isTimestamp, now)
  /\ op' = "estimate_next_dry_day"
  /\ pc' = "done"
  /\ UNCHANGED <<daily_df, df, i, is_muddy, days_since_rain, ret_dry>>

Next ==
  \/ is_road_dry
  \/ road_status_per_day_begin
  \/ road_status_per_day_step
  \/ road_status_per_day_return
  \/ estimate_next_dry_day

Spec == Init /\ [][Next]_vars

TypeOK ==
  /\ daily_df \in Frames
  /\ pc \in {"idle", "loop", "done"}
  /\ op \in {"none", "is_road_dry", "road_status_per_day", "estimate_next_dry_day"}
  /\ i \in 0..MaxLen
  /\ is_muddy \in BOOLEAN
  /\ days_since_rain \in Nat
  /\ today \in Days
  /\ ret_dry \in BOOLEAN
  /\ Cardinality(ret_next) <= 1

\* ------------------------------------------------------------- vocabulary
Heavy(r) == r.rain > 5
MeetsThreshold(r) == r.rain <= 5 /\ r.relative_humidity_2m <= 90
Rows(frame) == 1..Len(frame)
UniqueDays(frame) ==
  \A j, k \in Rows(frame) : j # k => frame[j].date_day # frame[k].date_day
HasDuplicateDays(frame) == ~UniqueDays(frame)
Returned(f) == pc = "done" /\ op = f
Classifying == op = "road_status_per_day"

\* The classifier state and label after the first k rows of frame, run from
\* the initial state.
RECURSIVE StateAfter(_, _)
StateAfter(frame, k) ==
  IF k = 0
  THEN [is_muddy |-> FALSE, days_since_rain |-> InitialDaysSinceRain, road_status |-> "Dry"]
  ELSE LET before == StateAfter(frame, k - 1)
       IN  RoadStep(before.is_muddy, before.days_since_rain, frame[k])

\* ------------------------------------------------------------------ C1
\* C1: every row road_status_per_day has processed whose rain is above 5 is
\* labelled Mud, whatever its humidity and whatever is_muddy and
\* days_since_rain were when the row was reached.
C1_HeavyRainIsMud ==
  Classifying =>
    \A k \in 1..i : Heavy(daily_df[k]) => df[k].road_status = "Mud"

\* A finished run whose third row has heavy rain and low humidity and is
\* reached with the mud of the first row two rows old.
C1_Witness ==
  /\ Returned("road_status_per_day")
  /\ Len(daily_df) = 3
  /\ Heavy(daily_df[1])
  /\ ~Heavy(daily_df[2])
  /\ Heavy(daily_df[3])
  /\ daily_df[3].relative_humidity_2m <= 90
  /\ df[3].road_status = "Mud"

\* ------------------------------------------------------------------ C2
\* C2: the row that follows a heavy-rain row is labelled Mud, also when its
\* own rain is at most 5 and its humidity at most 90.
C2_GracePeriod ==
  Classifying =>
    \A k \in 1..(i - 1) : Heavy(daily_df[k]) => df[k + 1].road_status = "Mud"

\* A finished run with a heavy-rain row followed by a row that is neither
\* rainy nor humid and is Mud.
C2_Witness ==
  /\ Returned("road_status_per_day")
  /\ \E k \in 1..(Len(daily_df) - 1) :
       /\ Heavy(daily_df[k])
       /\ MeetsThreshold(daily_df[k + 1])
       /\ df[k + 1].road_status = "Mud"

C4_LastTwoByDay ==
  (Returned("is_road_dry") /\ UniqueDays(daily_df)) =>
    (ret_dry <=>
       \A k \in Rows(daily_df) :
         Cardinality({j \in Rows(daily_df) :
                        daily_df[j].date_day > daily_df[k].date_day}) < 2
           => MeetsThreshold(daily_df[k]))

\* A true verdict on three rows given latest day first, the earliest day
\* (outside the window) failing the threshold.
C4_Witness ==
  /\ Returned("is_road_dry")
  /\ UniqueDays(daily_df)
  /\ Len(daily_df) = 3
  /\ daily_df[1].date_day > daily_df[2].date_day
  /\ daily_df[2].date_day > daily_df[3].date_day
  /\ ~MeetsThreshold(daily_df[3])
  /\ ret_dry

\* ------------------------------------------------------------------ C5
\* C5: a date estimate_next_dry_day returns is never before today, and it
\* returns None when no row with day >= today meets the threshold.
C5_NeverBeforeToday ==
  Returned("estimate_next_dry_day") =>
    /\ \A ts \in ret_next : DateOf(ts) >= today
    /\ (\A k \in Rows(daily_df) :
          daily_df[k].date_day >= today => ~MeetsThreshold(daily_df[k]))
         => ret_next = {}

\* None is returned although a row before today meets the threshold and a
\* row at or after today exists.
C5_Witness ==
  /\ Returned("estimate_next_dry_day")
  /\ ret_next = {}
  /\ \E k \in Rows(daily_df) : daily_df[k].date_day < today /\ MeetsThreshold(daily_df[k])
  /\ \E k \in Rows(daily_df) : daily_df[k].date_day >= today

\* ------------------------------------------------------------------ C6
\* C6: a date estimate_next_dry_day returns is the day of a row meeting the
\* threshold, and no row with today <= day < that date meets it, in every
\* row order of the frame.
C6_EarliestByDay ==
  (Returned("estimate_next_dry_day") /\ UniqueDays(daily_df)) =>
    \A ts \in ret_next :
      /\ \E k \in Rows(daily_df) :
           daily_df[k].date_day = DateOf(ts) /\ MeetsThreshold(daily_df[k])
      /\ \A k \in Rows(daily_df) :
           (today <= daily_df[k].date_day /\ daily_df[k].date_day < DateOf(ts))
             => ~MeetsThreshold(daily_df[k])

\* ------------------------------------------------------------------ C7
\* C7: the label road_status_per_day gives each day is the one the state
\* machine gives it when run over the rows in ascending day order, in every
\* row order of the frame.
C7_RowOrderIndependent ==
  (Returned("road_status_per_day") /\ UniqueDays(daily_df)) =>
    LET sorted == PrepareFrame(SortValues(daily_df))
    IN  \A k \in Rows(df) : \A j \in Rows(sorted) :
          sorted[j].date_day = df[k].date_day
            => df[k].road_status = StateAfter(sorted, j).road_status

\* ------------------------------------------------------------------ C8
\* C8: the frame road_status_per_day returns has as many rows as the input,
\* row for row the same day, and every road_status is Dry or Mud.
C8_SameDays ==
  Returned("road_status_per_day") =>
    /\ Len(df) = Len(daily_df)
    /\ \A k \in Rows(df) :
         /\ DateOf(df[k].date_day) = daily_df[k].date_day
         /\ df[k].road_status \in {"Dry", "Mud"}

\* A returned frame of at least two rows carrying both labels.
C8_Witness ==
  /\ Returned("road_status_per_day")
  /\ Len(df) >= 2
  /\ \E k \in Rows(df) : df[k].road_status = "Dry"
  /\ \E k \in Rows(df) : df[k].road_status = "Mud"

\* ------------------------------------------------------------------ C9
\* C9 as claimed: is_road_dry never returns a verdict for a frame with no
\* rows.
C9_EmptyNeverReturns == ~(Returned("is_road_dry") /\ daily_df = <<>>)

\* C9 as amended: is_road_dry called on a frame with no rows raises nothing
\* and returns true.
C9_EmptyIsDry ==
  (Returned("is_road_dry") /\ daily_df = <<>>) => ret_dry

\* is_road_dry has returned true for the empty frame.
C9_Witness == Returned("is_road_dry") /\ Len(daily_df) = 0 /\ ret_dry = TRUE

RECURSIVE PastVariants(_, _)
PastVariants(frame, now) ==
  IF frame = <<>> THEN {<<>>}
  ELSE LET init  == SubSeq(frame, 1, Len(frame) - 1)
           last  == frame[Len(frame)]
           lasts == IF last.date_day >= now
                    THEN {last}
                    ELSE {[last EXCEPT !.rain = r, !.relative_humidity_2m = h] :
                            r \in Rains, h \in Humidities}
       IN  {Append(g, x) : g \in PastVariants(init, now), x \in lasts}

\* The rows of frame with day >= now, in the order given.
FutureRows(frame, now) ==
  LET AtOrAfter(r) == r.date_day >= now
  IN  SelectSeq(frame, AtOrAfter)

\* C11: for a fixed today, the result of estimate_next_dry_day is the result
\* it gives on every frame that differs only in the rain and humidity of
\* rows before today, and on the frame with the rows before today removed:
\* nothing before today, heavy rain on the eve included, changes it.
C11_StatelessFromToday ==
  Returned("estimate_next_dry_day") =>
    /\ \A g \in PastVariants(daily_df, today) :
         EstimateNextDryDay(g, FALSE, today) = ret_next
    /\ EstimateNextDryDay(FutureRows(daily_df, today), FALSE, today) = ret_next

\* today is returned although the row just before it is the eve's heavy rain,
\* so that the state machine of road_status_per_day labels today Mud.
C11_Witness ==
  /\ Returned("estimate_next_dry_day")
  /\ \E ts \in ret_next : DateOf(ts) = today
  /\ \E k \in 2..Len(daily_df) :
       /\ daily_df[k - 1].date_day = today - 1
       /\ Heavy(daily_df[k - 1])
       /\ daily_df[k].date_day = today
       /\ MeetsThreshold(daily_df[k])
       /\ StateAfter(PrepareFrame(daily_df), k).road_status = "Mud"

====
